---- MODULE Spec2Model ----
(***************************************************************************)
(* FetchRequestPaused (packages/puppeteer-core/src/cdp/                    *)
(* FetchRequestPaused.ts): one request paused by the Fetch domain, its     *)
(* handled flag, and the three resolution operations continue, abort and   *)
(* respond, each of which sends one command through the CDP session and    *)
(* awaits its acknowledgment.                                              *)
(*                                                                         *)
(* Granularity.  A step is what JavaScript runs without interruption: one  *)
(* job of the event loop, or the synchronous part of one.  An operation    *)
(* runs up to its await in one step: the guard, the flag flip, the         *)
(* construction of the command and the call of client.send.  After that    *)
(* the session settles the promise send returned (one step); when it       *)
(* rejected, the catch callback runs as a promise job of its own (one      *)
(* step); and the awaiting operation resumes and completes in a later      *)
(* promise job (one step).  Invocations and reads made by other code fall  *)
(* between any two of these steps.  A respond that converts a header value *)
(* by a toString the caller wrote stops there: that code runs, invoking    *)
(* what it likes on this object and assigning what it likes to the         *)
(* response, and respond goes on from where it was when the code returns,  *)
(* reading the rest of the response as it then is.                         *)
(*                                                                         *)
(* Values.  An optional value is a sequence of length 0 (undefined) or 1.  *)
(* A JavaScript string whose characters matter (postData, body, header     *)
(* names and values) is a sequence of code points; a string the code only  *)
(* passes along (url, method, errorReason, identifiers) is a TLA+ string.  *)
(***************************************************************************)
EXTENDS Integers, Sequences, FiniteSets, TLC

VARIABLES
    handled,    \* FetchRequestPaused.#handled
    event,      \* FetchRequestPaused.#event
    client,     \* FetchRequestPaused.#client
    sent,       \* the commands handed to client.send, in order, each with its fate
    calls,      \* the invocations of continue/abort/respond, in order, each with its outcome
    returned,   \* the value the last accessor invocation returned
    input       \* the argument a caller holds for the invocation under study

vars == <<handled, event, client, sent, calls, returned, input>>

----------------------------------------------------------------------------
(* Bounds of the model *)

\* the number of invocations of continue/abort/respond in one behaviour
MaxCalls == 3

----------------------------------------------------------------------------
(* Optional values and small helpers *)

None == <<>>

Some(v) == <<v>>

IsSome(o) == Len(o) = 1

----------------------------------------------------------------------------
(* Wire-format helpers imported from ../util/encoding.js and               *)
(* ../api/HTTPRequest.js                                                   *)

\* TextEncoder.encode of one code point (UTF-8, code points below 65536)
Utf8Char(c) ==
    IF c < 128 THEN <<c>>
    ELSE IF c < 2048 THEN <<192 + (c \div 64), 128 + (c % 64)>>
    ELSE <<224 + (c \div 4096), 128 + ((c \div 64) % 64), 128 + (c % 64)>>

\* TextEncoder.encode: the UTF-8 bytes of a string
RECURSIVE Utf8(_)
Utf8(str) == IF str = <<>> THEN <<>> ELSE Utf8Char(Head(str)) \o Utf8(Tail(str))

\* the padding character '=' of base64, after the 64 digits 0..63
Base64Pad == 64

\* base64 of a byte sequence, as a sequence of base64 digits (0..63) and padding
RECURSIVE typedArrayToBase64(_)
typedArrayToBase64(bytes) ==
    IF Len(bytes) = 0 THEN <<>>
    ELSE IF Len(bytes) = 1 THEN
        << bytes[1] \div 4, (bytes[1] % 4) * 16, Base64Pad, Base64Pad >>
    ELSE IF Len(bytes) = 2 THEN
        << bytes[1] \div 4,
           (bytes[1] % 4) * 16 + (bytes[2] \div 16),
           (bytes[2] % 16) * 4,
           Base64Pad >>
    ELSE
        << bytes[1] \div 4,
           (bytes[1] % 4) * 16 + (bytes[2] \div 16),
           (bytes[2] % 16) * 4 + (bytes[3] \div 64),
           bytes[3] % 64 >>
        \o typedArrayToBase64(SubSeq(bytes, 4, Len(bytes)))

\* stringToBase64(str): base64 of the UTF-8 bytes of str
stringToBase64(str) == typedArrayToBase64(Utf8(str))

\* String(n) of an integer below 10^21 in absolute value: a minus sign for a
\* negative number, then the decimal digits
RECURSIVE Decimal(_)
Decimal(n) ==
    IF n < 0 THEN <<45>> \o Decimal(0 - n)
    ELSE IF n < 10 THEN <<48 + n>>
    ELSE Decimal(n \div 10) \o <<48 + (n % 10)>>

\* the code points toLowerCase is modelled on: Basic Latin, Latin-1
\* Supplement and Latin Extended-A (U+0000..U+017F), the combining
\* diacritical marks (U+0300..U+036F), the letterlike symbols
\* (U+2100..U+214F), and the small omega (U+03C9)
CodePoints == (0..383) \cup (768..879) \cup (8448..8527) \cup {969}

\* String.prototype.toLowerCase on one code point of CodePoints: the code
\* points of its lower-case form (two for U+0130, one otherwise); a code
\* point outside CodePoints has no value here
LowerChar(c) ==
    IF (c >= 65 /\ c <= 90) \/ (c >= 192 /\ c <= 222 /\ c # 215) THEN <<c + 32>>
    ELSE IF c = 304 THEN <<105, 775>>
    ELSE IF c = 376 THEN <<255>>
    ELSE IF c % 2 = 0 /\ ((c >= 256 /\ c <= 311) \/ (c >= 330 /\ c <= 375))
         THEN <<c + 1>>
    ELSE IF c % 2 = 1 /\ ((c >= 313 /\ c <= 328) \/ (c >= 377 /\ c <= 382))
         THEN <<c + 1>>
    ELSE IF c = 8486 THEN <<969>>
    ELSE IF c = 8490 THEN <<107>>
    ELSE IF c = 8491 THEN <<229>>
    ELSE IF c = 8498 THEN <<8526>>
    ELSE CASE c \in CodePoints -> <<c>>

\* String.prototype.toLowerCase: the lower-case forms of the code points, in
\* order
RECURSIVE toLowerCase(_)
toLowerCase(str) ==
    IF str = <<>> THEN <<>> ELSE LowerChar(Head(str)) \o toLowerCase(Tail(str))

\* the texts String prints for true, false, null and undefined
TrueText == <<116, 114, 117, 101>>

FalseText == <<102, 97, 108, 115, 101>>

NullText == <<110, 117, 108, 108>>

UndefinedText == <<117, 110, 100, 101, 102, 105, 110, 101, 100>>

\* a header value item that is an object: "object" when String converts it
\* by the built-in toString, "custom" when by a toString or valueOf the
\* caller wrote, which runs the caller's code
IsObject(item) == item.kind \in {"object", "custom"}

\* String(item) throws: an object with nothing to convert it by (such as
\* Object.create(null)), or one whose own toString throws
Throws(item) == IsObject(item) /\ item.num = 1

\* what String(item) throws: a TypeError of the engine, or the caller's error
ThrownBy(item) == IF item.kind = "custom" THEN "CallerError" ELSE "TypeError"

\* String(item) of a header value item: a string stays, an integer is
\* printed in decimal, true, false, null and undefined by their names, and
\* an object gives what its toString returns; no value when it throws
String(item) ==
    CASE item.kind = "string" -> item.str
      [] item.kind = "number" -> Decimal(item.num)
      [] item.kind = "boolean" -> IF item.num = 1 THEN TrueText ELSE FalseText
      [] item.kind = "null" -> NullText
      [] item.kind = "undefined" -> UndefinedText
      [] IsObject(item) /\ ~Throws(item) -> item.str

\* HTTPRequest.getResponse(body): byte length and base64 of a text or binary body
getResponse(body) ==
    LET byteBody == IF body.kind = "text" THEN Utf8(body.data) ELSE body.data
    IN  [contentLength |-> Len(byteBody), base64 |-> typedArrayToBase64(byteBody)]

\* headersArray(headers): the entries of a header map, in the order for-in
\* visits them, flattened to name/value pairs, one pair per value of a
\* multi-value entry
RECURSIVE headersArray(_)
headersArray(headers) ==
    IF headers = <<>> THEN <<>>
    ELSE LET h == Head(headers)
         IN  [i \in 1..Len(h.values) |-> [name |-> h.name, value |-> h.values[i]]]
             \o headersArray(Tail(headers))

\* a table without entries
NoStatusTexts(status) == None

\* STATUS_TEXTS[status]: the standard reason phrase, undefined for an unknown code
STATUS_TEXTS(status) ==
    CASE status = 200 -> Some("OK")
      [] status = 204 -> Some("No Content")
      [] status = 404 -> Some("Not Found")
      [] status = 500 -> Some("Internal Server Error")
      [] OTHER -> None

\* the error logged and dropped: handleError returns normally
handleErrorReturns(error) == [thrown |-> FALSE, error |-> error]

\* handleError(error): the error is normalised and thrown to the caller
handleError(error) == [thrown |-> TRUE, error |-> error]

----------------------------------------------------------------------------
(* The paused-request notifications and the inputs of the operations *)

\* Protocol.Fetch.RequestPausedEvent values a FetchRequestPaused is built from
Events ==
    { [requestId |-> "interception-1", networkId |-> Some("network-1"),
       request |-> [url |-> "https://a.test/", method |-> "GET"],
       frameId |-> Some("frame-1"), resourceType |-> "Document"],
      [requestId |-> "interception-2", networkId |-> None,
       request |-> [url |-> "https://a.test/api", method |-> "POST"],
       frameId |-> None, resourceType |-> "XHR"] }

\* the CDPSession a FetchRequestPaused is built with
Sessions == {"session-1"}

\* the errors client.send rejects with (the remote rejects, the channel drops)
SendErrors == {"ProtocolError"}

\* the message of the error the guard throws
AlreadyHandledMessage == "Request has already been handled"

\* a header map entry: a name and its value, a string or a list
Header(name, isArray, values) == [name |-> name, isArray |-> isArray, values |-> values]

\* a header value item before stringification
Str(s) == [kind |-> "string", str |-> s, num |-> 0]

Num(n) == [kind |-> "number", str |-> <<>>, num |-> n]

Bool(b) == [kind |-> "boolean", str |-> <<>>, num |-> IF b THEN 1 ELSE 0]

Null == [kind |-> "null", str |-> <<>>, num |-> 0]

Undefined == [kind |-> "undefined", str |-> <<>>, num |-> 0]

\* "[object Object]", what the built-in toString gives for a plain object
ObjectText == <<91, 111, 98, 106, 101, 99, 116, 32, 79, 98, 106, 101, 99, 116, 93>>

\* a plain object such as {}, and an object without a prototype
PlainObject == [kind |-> "object", str |-> ObjectText, num |-> 0]

BareObject == [kind |-> "object", str |-> <<>>, num |-> 1]

\* an object whose own toString returns text, and one whose own toString
\* throws
Custom(text) == [kind |-> "custom", str |-> text, num |-> 0]

CustomThrowing == [kind |-> "custom", str |-> <<>>, num |-> 1]

\* the ContinueRequestOverrides value of the invocations of continue: url,
\* method, headers and a text body with a non-ASCII character
ContinueInputs ==
    { [url |-> Some("https://b.test/"), method |-> Some("PUT"),
       postData |-> Some(<<97, 233>>),
       headers |-> Some(<< Header(<<88, 45, 65>>, FALSE, << <<97>> >>) >>)] }

\* the errorReason argument of the invocations of abort
AbortInputs == { Some("Aborted") }

\* the Partial<ResponseForRequest> values of the invocations of respond: a
\* status, a text body and two headers, X-A, whose value is the string 'a',
\* an object whose own toString returns 'a', or an object without a
\* prototype, and X-B: 'b'.  The status is 500, the one the caller's code
\* assigns: what that code changes here is whether the command is sent, and
\* what it changes of the command's contents is the matter of RespondSpec
RespondInputs ==
    { [status |-> Some(500),
       headers |-> Some(<< [name |-> <<88, 45, 65>>, isArray |-> FALSE, items |-> <<v>>],
                           [name |-> <<88, 45, 66>>, isArray |-> FALSE,
                            items |-> <<Str(<<98>>)>>] >>),
       contentType |-> None,
       body |-> Some([kind |-> "text", data |-> <<97, 233, 98>>])] :
        v \in { Str(<<97>>), Custom(<<97>>), BareObject } }

----------------------------------------------------------------------------
(* Construction of the three commands *)

\* the command keyed by the network request id in place of the Fetch one
CommandNetworkId == IF IsSome(event.networkId) THEN event.networkId[1] ELSE ""

\* the requestId every command is keyed by: this.#event.requestId
CommandRequestId == event.requestId

\* a JavaScript string used as a condition: undefined, null and '' are falsy
\* (a string of code points, and a string passed along)
TruthyChars(o) == IsSome(o) /\ o[1] # <<>>

TruthyText(o) == IsSome(o) /\ o[1] # ""

\* the body override passed on as text, not encoded
ContinueParamsRawBody(overrides) ==
    [requestId |-> CommandRequestId,
     url |-> overrides.url,
     method |-> overrides.method,
     postData |-> IF TruthyChars(overrides.postData) THEN overrides.postData ELSE None,
     headers |-> IF IsSome(overrides.headers)
                 THEN Some(headersArray(overrides.headers[1]))
                 ELSE None]

\* the parameters of Fetch.continueRequest
ContinueParams(overrides) ==
    [requestId |-> CommandRequestId,
     url |-> overrides.url,
     method |-> overrides.method,
     postData |-> IF TruthyChars(overrides.postData)
                  THEN Some(stringToBase64(overrides.postData[1]))
                  ELSE None,
     headers |-> IF IsSome(overrides.headers)
                 THEN Some(headersArray(overrides.headers[1]))
                 ELSE None]

\* the caller's reason ignored
AbortParamsAlwaysFailed(errorReason) ==
    [requestId |-> CommandRequestId, errorReason |-> "Failed"]

\* the parameters of Fetch.failRequest
AbortParams(errorReason) ==
    [requestId |-> CommandRequestId,
     errorReason |-> IF TruthyText(errorReason) THEN errorReason[1] ELSE "Failed"]

\* the header names respond writes itself
ContentType == <<99, 111, 110, 116, 101, 110, 116, 45, 116, 121, 112, 101>>

ContentLength == <<99, 111, 110, 116, 101, 110, 116, 45, 108, 101, 110, 103, 116, 104>>

\* the name whose assignment runs the __proto__ setter of Object.prototype
ProtoName == <<95, 95, 112, 114, 111, 116, 111, 95, 95>>

\* `const responseHeaders = {}`: an object with no own key, whose prototype
\* is Object.prototype (None here); proto is a list once one was made the
\* prototype
EmptyObject == [own |-> <<>>, proto |-> None]

\* the object has an own key name
HasOwn(obj, name) == \E i \in 1..Len(obj.own) : obj.own[i].name = name

\* name is an index of list ('0', '1', ...)
IsIndexOf(name, list) == \E i \in 1..Len(list) : name = Decimal(i - 1)

\* `name in responseHeaders`: an own key, or an index of the list that is
\* the prototype (the names of the built-in members of Object.prototype and
\* Array.prototype, none of which is a header name the code tests, aside)
HasHeader(obj, name) ==
    HasOwn(obj, name) \/ (IsSome(obj.proto) /\ IsIndexOf(name, obj.proto[1]))

\* a write that leaves an existing key as it is (first write wins)
SetHeaderKeepFirst(obj, name, isArray, values) ==
    IF \E i \in 1..Len(obj.own) : obj.own[i].name = name
    THEN obj
    ELSE [obj EXCEPT !.own = Append(obj.own, Header(name, isArray, values))]

\* responseHeaders[name] = value.  For the name __proto__ the setter of
\* Object.prototype runs: a list becomes the prototype of the object, a
\* string is ignored, and no key is created.  For any other name an
\* existing own key keeps its place and a new key goes last
SetHeader(obj, name, isArray, values) ==
    IF name = ProtoName
    THEN IF isArray THEN [obj EXCEPT !.proto = Some(values)] ELSE obj
    ELSE IF HasOwn(obj, name)
    THEN [obj EXCEPT !.own = [i \in 1..Len(obj.own) |->
            IF obj.own[i].name = name THEN Header(name, isArray, values)
            ELSE obj.own[i]]]
    ELSE [obj EXCEPT !.own = Append(obj.own, Header(name, isArray, values))]

\* '4294967294', the numeral of the greatest array index, 2^32 - 2
MaxIndex == <<52, 50, 57, 52, 57, 54, 55, 50, 57, 52>>

\* of two decimal numerals without a leading zero, a names the smaller
\* number: the shorter one, and of two of one length the one with the
\* smaller digit where they first differ
NumeralLess(a, b) ==
    \/ Len(a) < Len(b)
    \/ /\ Len(a) = Len(b)
       /\ \E i \in 1..Len(a) :
             a[i] < b[i] /\ \A j \in 1..(i - 1) : a[j] = b[j]

\* a property name that is an array index: the decimal numeral, without a
\* leading zero, of a number from 0 to 2^32 - 2
IsArrayIndex(name) ==
    /\ name # <<>>
    /\ \A i \in 1..Len(name) : name[i] \in 48..57
    /\ (Len(name) > 1 => name[1] # 48)
    /\ ~NumeralLess(MaxIndex, name)

\* the entries of a sequence named by array indices, in ascending order of
\* the index
RECURSIVE IndexEntries(_)
IndexEntries(entries) ==
    LET idx == {i \in 1..Len(entries) : IsArrayIndex(entries[i].name)}
    IN  IF idx = {} THEN <<>>
        ELSE LET least == CHOOSE i \in idx :
                            \A j \in idx : ~NumeralLess(entries[j].name,
                                                        entries[i].name)
             IN  <<entries[least]>>
                 \o IndexEntries([i \in 1..(Len(entries) - 1) |->
                        IF i < least THEN entries[i] ELSE entries[i + 1]])

\* the order in which the keys of an object are visited: the array indices
\* in ascending order, then the other keys in the order they were created
KeyOrder(entries) ==
    IndexEntries(entries) \o SelectSeq(entries, LAMBDA e : ~IsArrayIndex(e.name))

\* the entries for-in visits on the object: its own keys in key order, then
\* the indices of the list that is its prototype which no own key shadows
ForIn(obj) ==
    KeyOrder(obj.own)
    \o (IF IsSome(obj.proto)
        THEN LET list == obj.proto[1]
                 all == [i \in 1..Len(list) |-> Header(Decimal(i - 1), FALSE, <<list[i]>>)]
             IN  SelectSeq(all, LAMBDA e : ~HasOwn(obj, e.name))
        ELSE <<>>)

\* `if (response.body) parsedBody = HTTPRequest.getResponse(response.body)`:
\* an empty string is falsy, a Uint8Array never is
ParsedBody(response) ==
    IF IsSome(response.body)
       /\ (response.body[1].kind = "binary" \/ response.body[1].data # <<>>)
    THEN Some(getResponse(response.body[1]))
    ELSE None

\* `response.headers[header]`: the value the header record holds under the
\* key, undefined when it holds none (the names of the built-in members of
\* Object.prototype aside)
Lookup(headers, name) ==
    IF \E i \in 1..Len(headers) : headers[i].name = name
    THEN LET h == headers[CHOOSE i \in 1..Len(headers) : headers[i].name = name]
         IN  [isArray |-> h.isArray, items |-> h.items]
    ELSE [isArray |-> FALSE, items |-> <<Undefined>>]

\* respond at `const responseHeaders = {}`, before the loop: the response
\* (the caller's object, which respond reads again as it goes on), the
\* parsedBody derived from its body, the keys the loop will visit
\* (`Object.keys(response.headers)`, taken once), the number of the key the
\* loop is at (0 before the first), the value read under that key and the
\* items of it converted so far, and the responseHeaders object
Begin(response) ==
    [response |-> response,
     parsedBody |-> ParsedBody(response),
     keys |-> IF IsSome(response.headers)
              THEN [i \in 1..Len(response.headers[1]) |-> response.headers[1][i].name]
              ELSE <<>>,
     at |-> 0,
     isArray |-> FALSE,
     items |-> <<>>,
     done |-> <<>>,
     responseHeaders |-> EmptyObject]

\* how a run of the loop ends: suspended in a toString the caller wrote,
\* with an error thrown, or with every key visited
Paused(f) == [kind |-> "paused", frame |-> f, error |-> ""]

Threw(f, error) == [kind |-> "threw", frame |-> f, error |-> error]

Ended(f) == [kind |-> "ended", frame |-> f, error |-> ""]

\* the loop over Object.keys(response.headers) from frame f on, up to the
\* first toString of the caller's it calls:
\*   `String(item)` for the next item of the value read, which throws for an
\*   object with nothing to convert it by;
\*   `responseHeaders[header.toLowerCase()] = ...` once the items of the value
\*   are converted;
\*   `const value = response.headers[header]` for the next key, read from
\*   the response as it is then: a TypeError when it has no headers any more
RECURSIVE Run(_)
RunFrom(f) ==
    IF Len(f.done) < Len(f.items)
    THEN LET item == f.items[Len(f.done) + 1]
         IN  IF item.kind = "custom" THEN Paused(f)
             ELSE IF Throws(item) THEN Threw(f, ThrownBy(item))
             ELSE Run([f EXCEPT !.done = Append(@, String(item))])
    ELSE LET stored == IF f.at = 0 THEN f.responseHeaders
                       ELSE SetHeader(f.responseHeaders, toLowerCase(f.keys[f.at]),
                                      f.isArray, f.done)
         IN  IF f.at = Len(f.keys)
             THEN Ended([f EXCEPT !.responseHeaders = stored])
             ELSE IF f.response.headers = None THEN Threw(f, "TypeError")
             ELSE LET value == Lookup(f.response.headers[1], f.keys[f.at + 1])
                  IN  Run([f EXCEPT !.responseHeaders = stored,
                                    !.at = f.at + 1,
                                    !.isArray = value.isArray,
                                    !.items = value.items,
                                    !.done = <<>>])

\* the loop from a frame: the frame is evaluated once, and the loop goes on
\* from its value
Run(f) == CHOOSE run \in { RunFrom(g) : g \in {f} } : TRUE

\* the toString of the caller's that suspended the loop at frame f returns:
\* with an error, which respond lets through, or with the text of the item,
\* and the loop goes on
Resumed(f) ==
    LET item == f.items[Len(f.done) + 1]
    IN  IF Throws(item) THEN Threw(f, ThrownBy(item))
        ELSE Run([f EXCEPT !.done = Append(@, item.str)])

\* the responseHeaders map after the loop: `if (response.contentType)
\* responseHeaders['content-type'] = response.contentType`, with the content
\* type the response holds then, and the content-length of the parsedBody
\* unless the map has one
ResponseHeaders(f) ==
    LET withType == IF TruthyChars(f.response.contentType)
                    THEN SetHeader(f.responseHeaders, ContentType, FALSE,
                                   <<f.response.contentType[1]>>)
                    ELSE f.responseHeaders
    IN  IF IsSome(f.parsedBody) /\ f.parsedBody[1].contentLength # 0
           /\ ~HasHeader(withType, ContentLength)
        THEN SetHeader(withType, ContentLength, FALSE,
                       <<Decimal(f.parsedBody[1].contentLength)>>)
        ELSE withType

\* `response.status || 200`
DefaultStatus == 200

Status(response) ==
    IF IsSome(response.status) /\ response.status[1] # 0
    THEN response.status[1]
    ELSE DefaultStatus

\* the parameters of Fetch.fulfillRequest, from the frame the loop ended
\* with: `const status = response.status || 200` is the status the response
\* holds then, and responseHeaders the flattened map
RespondParams(f) ==
    CHOOSE params \in
        { [requestId |-> CommandRequestId,
           responseCode |-> status,
           responsePhrase |-> STATUS_TEXTS(status),
           responseHeaders |-> headersArray(list),
           body |-> IF IsSome(f.parsedBody) THEN Some(f.parsedBody[1].base64)
                    ELSE None] :
            status \in { Status(f.response) },
            list \in { ForIn(map) : map \in { ResponseHeaders(f) } } } : TRUE

\* what a toString of the caller's may assign to the response it belongs to
\* while respond waits for it: `response.status = 500`, `delete
\* response.contentType`, and `response.headers[key] = Object.create(null)`
\* for a key after the first `after` keys of the header record
Assigned(response, after) ==
    { [response EXCEPT !.status = Some(500)],
      [response EXCEPT !.contentType = None] }
    \cup
    { [response EXCEPT !.headers =
          Some([@[1] EXCEPT ![i] = [name |-> @.name, isArray |-> FALSE,
                                    items |-> <<BareObject>>]])] :
        i \in (after + 1)..(IF IsSome(response.headers)
                            THEN Len(response.headers[1]) ELSE 0) }

----------------------------------------------------------------------------
(* The state machine *)

\* the commands in flight: the promise send returned is not settled
InFlight == {i \in 1..Len(sent) : sent[i].status = "pending"}

\* the commands the remote engine has acknowledged: the promise is fulfilled
Acked == {i \in 1..Len(sent) : sent[i].status = "acked"}

\* the commands whose send failed: the promise is rejected
Failed == {i \in 1..Len(sent) : sent[i].status = "failed"}

\* the failed commands whose catch callback has not run yet
Uncaught == {i \in Failed : ~sent[i].caught}

\* the record of one invocation: the operation, its outcome ("building" the
\* command while code of the caller runs, "awaiting" the send, "resolved",
\* or "rejected" with an error), the index of the command it sent (0 for
\* none), the frame a respond that is building its command is suspended
\* at, and what it found when invoked (handled, the commands in flight, the commands
\* acknowledged and the failed commands whose catch callback had not run)
Call(op, outcome, error, command, building) ==
    [op |-> op, outcome |-> outcome, error |-> error, command |-> command,
     building |-> building,
     handledAtCall |-> handled, inFlightAtCall |-> InFlight, ackedAtCall |-> Acked,
     uncaughtAtCall |-> Uncaught]

\* a respond is between its `this.#handled = true` and its send, in the
\* conversion of a header value that runs code of the caller
Building == \E k \in 1..Len(calls) : calls[k].outcome = "building"

\* the object after construction
Constructed ==
    /\ handled = FALSE
    /\ event \in Events
    /\ client \in Sessions
    /\ sent = <<>>
    /\ calls = <<>>
    /\ returned = [accessor |-> "none", value |-> FALSE]

\* no particular invocation is under study
NoInput == [op |-> "none"]

Init == Constructed /\ input = NoInput

\* the rejection clearing the flag on its way out
ThrowAndRevert(op) ==
    /\ calls' = Append(calls, Call(op, "rejected", AlreadyHandledMessage, 0, None))
    /\ handled' = FALSE
    /\ UNCHANGED <<event, client, sent, returned, input>>

\* `throw new Error('Request has already been handled')`
Throw(op) ==
    /\ calls' = Append(calls, Call(op, "rejected", AlreadyHandledMessage, 0, None))
    /\ UNCHANGED <<handled, event, client, sent, returned, input>>

\* the flag left as it is before the send (set only once the send has settled)
HandledNotSetBeforeSend == handled

\* `this.#handled = true`
HandledWhenAccepted == TRUE

\* `this.#handled = true; ... await this.#client.send(method, params)`, up to
\* the suspension at the await
Send(op, method, params) ==
    /\ handled' = HandledWhenAccepted
    /\ sent' = Append(sent, [method |-> method, params |-> params, session |-> client,
                             status |-> "pending", error |-> "", caught |-> FALSE,
                             call |-> Len(calls) + 1])
    /\ calls' = Append(calls, Call(op, "awaiting", "", Len(sent) + 1, None))
    /\ UNCHANGED <<event, client, returned, input>>

\* `this.#handled = true`, then String throws on a header value before any
\* code of the caller has run: respond ends rejected with that error, no
\* command is sent, and the catch callback that resets the flag was never
\* attached
ThrowWhileBuilding(op, error) ==
    /\ handled' = HandledWhenAccepted
    /\ calls' = Append(calls, Call(op, "rejected", error, 0, None))
    /\ UNCHANGED <<event, client, sent, returned, input>>

\* `this.#handled = true`, then the loop over the headers up to the point
\* where String calls a toString the caller wrote: respond is suspended at
\* frame f while that code runs, and whatever the code invokes on this
\* object, or assigns to the response, happens before respond goes on
Enter(op, f) ==
    /\ handled' = HandledWhenAccepted
    /\ calls' = Append(calls, Call(op, "building", "", 0, Some(f)))
    /\ UNCHANGED <<event, client, sent, returned, input>>

\* respond from `this.#handled = true` on: the header values are converted,
\* and the command is sent unless a conversion throws
Fulfil(response) ==
    \E run \in { Run(Begin(response)) } :
        IF run.kind = "paused" THEN Enter("respond", run.frame)
        ELSE IF run.kind = "threw" THEN ThrowWhileBuilding("respond", run.error)
        ELSE Send("respond", "Fetch.fulfillRequest", RespondParams(run.frame))

\* the caller's code has returned and respond k goes on from where it was,
\* with the response as that code left it: up to the next toString of the
\* caller's, or to an error, which ends respond rejected with handled left
\* true and nothing sent, or to the end of the loop, after which the command
\* is handed to the session and respond suspends at its await
Finish(k) ==
    /\ calls[k].outcome = "building"
    /\ \E run \in { Resumed(calls[k].building[1]) } :
          IF run.kind = "paused"
          THEN /\ calls' = [calls EXCEPT ![k].building = Some(run.frame)]
               /\ sent' = sent
          ELSE IF run.kind = "threw"
          THEN /\ calls' = [calls EXCEPT ![k].outcome = "rejected",
                                        ![k].error = run.error,
                                        ![k].building = None]
               /\ sent' = sent
          ELSE /\ sent' = Append(sent, [method |-> "Fetch.fulfillRequest",
                                        params |-> RespondParams(run.frame),
                                        session |-> client,
                                        status |-> "pending", error |-> "",
                                        caught |-> FALSE, call |-> k])
               /\ calls' = [calls EXCEPT ![k].outcome = "awaiting",
                                        ![k].command = Len(sent) + 1,
                                        ![k].building = None]
    /\ UNCHANGED <<handled, event, client, returned, input>>

\* the synchronous continuation of a respond that ran code of the caller
Build == \E k \in 1..Len(calls) : Finish(k)

\* the toString that respond k waits for assigns to the response: its
\* status, its contentType, or the value under a key the loop has yet to
\* read (respond does not read again the value under a key it has visited)
CallerAssigns(k) ==
    /\ calls[k].outcome = "building"
    /\ \E response \in Assigned(calls[k].building[1].response,
                                calls[k].building[1].at) :
          /\ response # calls[k].building[1].response
          /\ calls' = [calls EXCEPT ![k].building =
                          Some([@[1] EXCEPT !.response = response])]
    /\ UNCHANGED <<handled, event, client, sent, returned, input>>

\* the code of the caller's that a conversion runs changes the response
CallerCode == \E k \in 1..Len(calls) : CallerAssigns(k)

\* `if (this.#handled) throw ...` without the guard
ResolveUnguarded(op, accepted) == accepted

\* the part the three operations share: the guard, then what the operation
\* does once it has passed it
Resolve(op, accepted) ==
    IF handled THEN Throw(op) ELSE accepted

continue(overrides) ==
    /\ Len(calls) < MaxCalls
    /\ Resolve("continue",
               Send("continue", "Fetch.continueRequest", ContinueParams(overrides)))

abort(errorReason) ==
    /\ Len(calls) < MaxCalls
    /\ Resolve("abort", Send("abort", "Fetch.failRequest", AbortParams(errorReason)))

respond(response) ==
    /\ Len(calls) < MaxCalls
    /\ Resolve("respond", Fulfil(response))

\* the flag reset whenever the send settles (a finally in place of the catch)
HandledResetAfterAck == FALSE

\* the flag after the send has been acknowledged: nothing assigns it
HandledAfterAck == handled

\* the session fulfils the promise of command i (the remote engine has
\* acknowledged the command); the operation is still suspended at its await.
\* The session and the promise jobs run between the synchronous runs of the
\* caller's code, never inside one
SendSucceeds(i) ==
    /\ ~Building
    /\ i \in InFlight
    /\ sent' = [sent EXCEPT ![i].status = "acked"]
    /\ handled' = HandledAfterAck
    /\ UNCHANGED <<event, client, calls, returned, input>>

\* the session rejects the promise of command i with error; the catch
\* callback has not run yet and the operation is still suspended
SendFails(i, error) ==
    /\ ~Building
    /\ i \in InFlight
    /\ sent' = [sent EXCEPT ![i].status = "failed", ![i].error = error]
    /\ UNCHANGED <<handled, event, client, calls, returned, input>>

\* promise jobs run in the order they were queued.  The resumption of an
\* invocation is queued by its catch callback, and no later invocation
\* passes the guard before that callback has reset the flag: so the catch
\* callback and the resumption of invocation k are queued, and run, after
\* the resumption of every invocation before it
EarlierCompleted(k) == \A j \in 1..(k - 1) : calls[j].outcome # "awaiting"

\* the flag left set when the send fails (no revert)
HandledKeptAfterCatch == TRUE

\* `this.#handled = false` in the catch callback
HandledAfterCatch == FALSE

\* the catch callback of command i runs, a promise job after the rejection:
\* `this.#handled = false; return handleError(error)`
Catch(i) ==
    /\ ~Building
    /\ i \in Uncaught
    /\ EarlierCompleted(sent[i].call)
    /\ handled' = HandledAfterCatch
    /\ sent' = [sent EXCEPT ![i].caught = TRUE]
    /\ UNCHANGED <<event, client, calls, returned, input>>

\* `return handleError(error)` in the catch callback: what the awaiting
\* operation completes with
CatchOutcome(call, error) ==
    IF handleError(error).thrown
    THEN [call EXCEPT !.outcome = "rejected", !.error = handleError(error).error]
    ELSE [call EXCEPT !.outcome = "resolved"]

\* `await ...send(...).catch(...)` resumes, a promise job after the promise
\* of the catch has settled, and invocation k completes: normally when its
\* command was acknowledged, with what the catch callback gave when its send
\* failed
Resume(k) ==
    /\ ~Building
    /\ calls[k].outcome = "awaiting"
    /\ EarlierCompleted(k)
    /\ \/ /\ calls[k].command \in Acked
          /\ calls' = [calls EXCEPT ![k].outcome = "resolved"]
       \/ /\ calls[k].command \in Failed \ Uncaught
          /\ calls' = [calls EXCEPT
                         ![k] = CatchOutcome(calls[k], sent[calls[k].command].error)]
    /\ UNCHANGED <<handled, event, client, sent, returned, input>>

\* the promise jobs of the class: a catch callback, or the resumption of a
\* suspended operation
Job ==
    \/ \E i \in 1..Len(sent) : Catch(i)
    \/ \E k \in 1..Len(calls) : Resume(k)

\* the read accessors
Accessors == {"event", "requestId", "networkId", "request", "frameId",
              "resourceType", "handled"}

Getter(a) ==
    CASE a = "event" -> event
      [] a = "requestId" -> event.requestId
      [] a = "networkId" -> event.networkId
      [] a = "request" -> event.request
      [] a = "frameId" -> event.frameId
      [] a = "resourceType" -> event.resourceType
      [] a = "handled" -> handled

\* one accessor is read
Get(a) ==
    /\ returned' = [accessor |-> a, value |-> Getter(a)]
    /\ UNCHANGED <<handled, event, client, sent, calls, input>>

Next ==
    \/ \E overrides \in ContinueInputs : continue(overrides)
    \/ \E errorReason \in AbortInputs : abort(errorReason)
    \/ \E response \in RespondInputs : respond(response)
    \/ \E i \in 1..Len(sent) : SendSucceeds(i)
    \/ \E i \in 1..Len(sent), error \in SendErrors : SendFails(i, error)
    \/ Job
    \/ Build
    \/ CallerCode
    \/ \E a \in Accessors : Get(a)

Spec == Init /\ [][Next]_vars

----------------------------------------------------------------------------
(* The session settles every send: the specification for termination *)

\* the error a send fails with when the channel is torn down while the
\* command is in flight (the catch callback treats every error alike; the
\* remote's rejection of a command is in Spec)
ChannelErrors == {"TargetCloseError"}

\* the session settles a send in flight, one way or the other
Settle ==
    \E i \in 1..Len(sent) :
        \/ SendSucceeds(i)
        \/ \E error \in ChannelErrors : SendFails(i, error)

\* the operations, and the settling of their sends
LiveNext ==
    \/ \E overrides \in ContinueInputs : continue(overrides)
    \/ \E errorReason \in AbortInputs : abort(errorReason)
    \/ \E response \in RespondInputs : respond(response)
    \/ Settle
    \/ Job
    \/ Build
    \/ CallerCode

\* client.send returns a promise the session eventually settles, the event
\* loop runs every promise job that is queued, and the caller's code that a
\* conversion runs returns
LiveSpec ==
    Init /\ [][LiveNext]_vars /\ WF_vars(Settle) /\ WF_vars(Job) /\ WF_vars(Build)

----------------------------------------------------------------------------
(* One invocation on a fresh object, for each argument of a bounded set:   *)
(* the specifications for the construction of the three commands           *)

\* the number of entries of a header record
MaxHeaders == 2

\* header names: X-A, x-a, Content-Type, content-type, Content-Length,
\* content-length
HeaderNames ==
    { <<88, 45, 65>>, <<120, 45, 97>>,
      <<67, 111, 110, 116, 101, 110, 116, 45, 84, 121, 112, 101>>,
      <<99, 111, 110, 116, 101, 110, 116, 45, 116, 121, 112, 101>>,
      <<67, 111, 110, 116, 101, 110, 116, 45, 76, 101, 110, 103, 116, 104>>,
      <<99, 111, 110, 116, 101, 110, 116, 45, 108, 101, 110, 103, 116, 104>> }

\* header values of a response: the string '9', the number 12, the list
\* ['a', 7]
ResponseHeaderValues ==
    { [isArray |-> FALSE, items |-> <<Str(<<57>>)>>],
      [isArray |-> FALSE, items |-> <<Num(12)>>],
      [isArray |-> TRUE, items |-> <<Str(<<97>>), Num(7)>>] }

\* the entries a response header record may hold
ResponseHeaderEntries ==
    { [name |-> n, isArray |-> v.isArray, items |-> v.items] :
        n \in HeaderNames, v \in ResponseHeaderValues }

\* the records of n entries drawn from entries, as Object.keys lists them:
\* keys distinct, array indices first
RecordsOf(entries, n) ==
    { h \in [1..n -> entries] :
        /\ \A i \in 1..n : \A j \in 1..n : (i # j) => h[i].name # h[j].name
        /\ \A i \in 1..n : \A j \in 1..n :
              (i < j /\ IsArrayIndex(h[j].name)) =>
                  (IsArrayIndex(h[i].name)
                   /\ NumeralLess(h[i].name, h[j].name)) }

\* the response header records of at most MaxHeaders entries
ResponseHeaderRecords ==
    UNION { RecordsOf(ResponseHeaderEntries, n) : n \in 0..MaxHeaders }

\* response bodies: '', 'aé', 'hello', and the byte arrays [] and [0, 255]
Bodies ==
    { [kind |-> "text", data |-> <<>>],
      [kind |-> "text", data |-> <<97, 233>>],
      [kind |-> "text", data |-> <<104, 101, 108, 108, 111>>],
      [kind |-> "binary", data |-> <<>>],
      [kind |-> "binary", data |-> <<0, 255>>] }

\* contentType values: '' and 't'
ContentTypes == { <<>>, <<116>> }

\* status values
Statuses == { 0, 200, 204, 404, 500, 999 }

Optional(S) == {None} \cup {Some(x) : x \in S}

\* header names outside ASCII: the pairs U+00C9 and U+00E9 (E with acute),
\* U+212A (the Kelvin sign) and k, and U+0130 (I with dot above) and i
\* followed by U+0307
WideHeaderNames ==
    { <<201>>, <<233>>, <<8490>>, <<107>>, <<304>>, <<105, 775>> }

\* header values of the kinds String prints other than a string and a
\* natural number: -12, true, undefined, and the list [-1, false, null]
WideHeaderValues ==
    { [isArray |-> FALSE, items |-> <<Num(0 - 12)>>],
      [isArray |-> FALSE, items |-> <<Bool(TRUE)>>],
      [isArray |-> FALSE, items |-> <<Undefined>>],
      [isArray |-> TRUE, items |-> <<Num(0 - 1), Bool(FALSE), Null>>] }

\* the entries a record of such headers may hold
WideHeaderEntries ==
    { [name |-> n, isArray |-> v.isArray, items |-> v.items] :
        n \in WideHeaderNames, v \in WideHeaderValues }

\* the records of such headers of at most MaxHeaders entries
WideHeaderRecords ==
    UNION { RecordsOf(WideHeaderEntries, n) : n \in 0..MaxHeaders }

\* header names an object treats apart: __proto__ in two letter cases, the
\* array indices '0', '1' and '4294967294', and '4294967295', which is none,
\* with x-a
ObjectHeaderNames ==
    { ProtoName, <<95, 95, 80, 82, 79, 84, 79, 95, 95>>, <<48>>, <<49>>,
      MaxIndex, <<52, 50, 57, 52, 57, 54, 55, 50, 57, 53>>,
      <<120, 45, 97>> }

\* their values: the string '9' and the list ['a', 'b']
ObjectHeaderValues ==
    { [isArray |-> FALSE, items |-> <<Str(<<57>>)>>],
      [isArray |-> TRUE, items |-> <<Str(<<97>>), Str(<<98>>)>>] }

\* the entries a record of such headers may hold
ObjectHeaderEntries ==
    { [name |-> n, isArray |-> v.isArray, items |-> v.items] :
        n \in ObjectHeaderNames, v \in ObjectHeaderValues }

\* the records of such headers of at most MaxHeaders entries
ObjectHeaderRecords ==
    UNION { RecordsOf(ObjectHeaderEntries, n) : n \in 0..MaxHeaders }

\* header values that are objects: a plain object, an object without a
\* prototype, an object whose own toString returns 'a', one whose own
\* toString throws, and the list of 'a' and an object without a prototype
ObjectValues ==
    { [isArray |-> FALSE, items |-> <<PlainObject>>],
      [isArray |-> FALSE, items |-> <<BareObject>>],
      [isArray |-> FALSE, items |-> <<Custom(<<97>>)>>],
      [isArray |-> FALSE, items |-> <<CustomThrowing>>],
      [isArray |-> TRUE, items |-> <<Str(<<97>>), BareObject>>] }

\* the entries a record of headers with such values may hold, under the
\* names X-A and x-a
ObjectValueEntries ==
    { [name |-> n, isArray |-> v.isArray, items |-> v.items] :
        n \in { <<88, 45, 65>>, <<120, 45, 97>> }, v \in ObjectValues }

\* the records of such headers of at most MaxHeaders entries
ObjectValueRecords ==
    UNION { RecordsOf(ObjectValueEntries, n) : n \in 0..MaxHeaders }

\* the entries of a record of headers some of whose values are converted by
\* code of the caller's: under the names X-A and Content-Type, an object
\* whose own toString returns 'a' and the string '9'
CallerValueEntries ==
    { [name |-> n, isArray |-> FALSE, items |-> <<v>>] :
        n \in { <<88, 45, 65>>,
                <<67, 111, 110, 116, 101, 110, 116, 45, 84, 121, 112, 101>> },
        v \in { Custom(<<97>>), Str(<<57>>) } }

\* the records of such headers of at most MaxHeaders entries
CallerValueRecords ==
    UNION { RecordsOf(CallerValueEntries, n) : n \in 0..MaxHeaders }

\* Partial<ResponseForRequest> values: every body, contentType and header
\* record without a status, every status alone, every record of headers
\* outside ASCII alone, every record of headers an object treats apart
\* alone, every record of headers whose values are objects, alone and
\* with a text body, and every record of headers some of whose values are
\* converted by code of the caller's, with a status or none and a
\* contentType or none
RespondCases ==
    { [status |-> None, headers |-> h, contentType |-> t, body |-> b] :
        h \in Optional(ResponseHeaderRecords), t \in Optional(ContentTypes),
        b \in Optional(Bodies) }
    \cup
    { [status |-> Some(c), headers |-> None, contentType |-> None, body |-> None] :
        c \in Statuses }
    \cup
    { [status |-> None, headers |-> Some(h), contentType |-> None, body |-> None] :
        h \in WideHeaderRecords }
    \cup
    { [status |-> None, headers |-> Some(h), contentType |-> None, body |-> None] :
        h \in ObjectHeaderRecords }
    \cup
    { [status |-> None, headers |-> Some(h), contentType |-> None, body |-> b] :
        h \in ObjectValueRecords,
        b \in {None, Some([kind |-> "text", data |-> <<97>>])} }
    \cup
    { [status |-> c, headers |-> Some(h), contentType |-> t, body |-> None] :
        h \in CallerValueRecords, c \in Optional({0, 404, 999}),
        t \in Optional(ContentTypes) }

\* the first invocation on the object is respond(input.arg)
ApplyRespond == calls = <<>> /\ respond(input.arg)

RespondInit ==
    Constructed /\ input \in { [op |-> "respond", arg |-> r] : r \in RespondCases }

\* the command is complete when it is handed to the session: what becomes of
\* it afterwards is the matter of Spec
RespondNext == ApplyRespond \/ Build \/ CallerCode

RespondSpec == RespondInit /\ [][RespondNext]_vars

\* header values of a request: 'a' and '9'
RequestHeaderEntries ==
    { Header(n, FALSE, <<v>>) :
        n \in { <<88, 45, 65>>, <<120, 45, 97>>,
                <<67, 111, 110, 116, 101, 110, 116, 45, 84, 121, 112, 101>> },
        v \in { <<97>>, <<57>> } }

\* the request header records of at most MaxHeaders entries
RequestHeaderRecords ==
    UNION { RecordsOf(RequestHeaderEntries, n) : n \in 0..MaxHeaders }

\* postData values: '', 'a', 'aé', 'hello'
PostDatas == { <<>>, <<97>>, <<97, 233>>, <<104, 101, 108, 108, 111>> }

\* ContinueRequestOverrides values
ContinueCases ==
    { [url |-> u, method |-> m, postData |-> d, headers |-> h] :
        u \in Optional({"https://b.test/"}), m \in Optional({"PUT"}),
        d \in Optional(PostDatas), h \in Optional(RequestHeaderRecords) }

\* the first invocation on the object is continue(input.arg)
ApplyContinue == calls = <<>> /\ continue(input.arg)

ContinueInit ==
    Constructed /\ input \in { [op |-> "continue", arg |-> o] : o \in ContinueCases }

ContinueNext ==
    \/ ApplyContinue
    \/ \E i \in 1..Len(sent) : SendSucceeds(i)
    \/ \E i \in 1..Len(sent), error \in SendErrors : SendFails(i, error)
    \/ Job

ContinueSpec == ContinueInit /\ [][ContinueNext]_vars

\* Protocol.Network.ErrorReason
ErrorReasons ==
    { "Failed", "Aborted", "TimedOut", "AccessDenied", "ConnectionClosed",
      "ConnectionReset", "ConnectionRefused", "ConnectionAborted",
      "ConnectionFailed", "NameNotResolved", "InternetDisconnected",
      "AddressUnreachable", "BlockedByClient", "BlockedByResponse" }

\* errorReason arguments: null (or omitted), and every reason
AbortCases == Optional(ErrorReasons)

\* the first invocation on the object is abort(input.arg)
ApplyAbort == calls = <<>> /\ abort(input.arg)

AbortInit ==
    Constructed /\ input \in { [op |-> "abort", arg |-> e] : e \in AbortCases }

AbortNext ==
    \/ ApplyAbort
    \/ \E i \in 1..Len(sent) : SendSucceeds(i)
    \/ \E i \in 1..Len(sent), error \in SendErrors : SendFails(i, error)
    \/ Job

AbortSpec == AbortInit /\ [][AbortNext]_vars

----------------------------------------------------------------------------
(* Vocabulary of the properties *)

\* this step is an invocation of continue, abort or respond
CallStep == Len(calls') = Len(calls) + 1

\* the invocation this step made
NewCall == calls'[Len(calls')]

\* this step is the read of an accessor (a read that returns what the last
\* read returned leaves every variable as it is)
AccessorStep ==
    \/ returned'.accessor # returned.accessor
    \/ /\ returned'.accessor = "handled" /\ returned.accessor = "handled"
       /\ returned'.value # returned.value

\* invocation c failed with the already-handled error
AlreadyHandled(c) == c.outcome = "rejected" /\ c.error = AlreadyHandledMessage

\* invocation c passed the guard: it found handled false and set it
PassedGuard(c) == ~c.handledAtCall

\* invocation c passed the guard and sent a command
Accepted(c) == c.command # 0

\* the last invocation before invocation k that passed the guard: the one
\* that set the flag invocation k found (0 when there is none)
Holder(k) ==
    LET before == {h \in 1..(k - 1) : PassedGuard(calls[h])}
    IN  IF before = {} THEN 0
        ELSE CHOOSE h \in before : \A g \in before : g <= h

\* the conversion of a header value threw in invocation c
ConversionThrew(c) ==
    c.outcome = "rejected" /\ c.error \in {"TypeError", "CallerError"}

\* the fate of the command invocation k sent ("none" when it sent none)
CommandStatus(k) ==
    IF k <= Len(calls) /\ calls[k].command \in 1..Len(sent)
    THEN sent[calls[k].command].status
    ELSE "none"

\* invocation c completed with the error of its failed send
SendErrorSurfaced(c) == c.outcome = "rejected" /\ c.error \in SendErrors

\* invocation k completes in this step
Completes(k) == calls[k].outcome = "awaiting" /\ calls'[k].outcome # "awaiting"

\* the catch callback of command i runs in this step
CatchStep(i) == i \in Uncaught /\ i \notin Uncaught'

----------------------------------------------------------------------------
(* Properties *)

\* C1: whenever continue, abort or respond is invoked while handled is true,
\* the invocation fails with 'Request has already been handled' and no
\* command is sent to the session.
C1_HandledRejects ==
    [][ (CallStep /\ handled) => (AlreadyHandled(NewCall) /\ sent' = sent) ]_vars

\* C1 witness: while an abort command is in flight, a continue and a respond
\* have both been rejected and the abort command is the only one sent.
C1_Witness ==
    /\ Len(calls) = 3 /\ Len(sent) = 1
    /\ calls[1].op = "abort" /\ Accepted(calls[1])
    /\ calls[2].op = "continue" /\ calls[2].handledAtCall /\ AlreadyHandled(calls[2])
    /\ calls[3].op = "respond" /\ calls[3].handledAtCall /\ AlreadyHandled(calls[3])

\* C2 as stated: at most one command of this PausedRequest is ever sent,
\* whatever the send outcomes.
C2_AtMostOneCommandEver == Len(sent) <= 1

\* C2 amended: a further command is sent only after every earlier one has
\* failed, so the commands sent number at most one more than the failed sends.
C2_AtMostOneCommandNotFailed == Len(sent) <= 1 + Cardinality(Failed)

\* C2 witness: three commands were sent, the first two failed.
C2_Witness == Len(sent) = 3 /\ Failed = {1, 2}

\* C3: once a send has succeeded, handled is true in that state and every
\* later one, and every later invocation fails with the already-handled
\* error without sending.
C3_SuccessIsPermanent ==
    [][ /\ (Acked' # {} => handled')
        /\ (Acked # {} /\ CallStep => AlreadyHandled(NewCall) /\ sent' = sent) ]_vars

\* C3 witness: a respond command was acknowledged, and both invocations made
\* after the acknowledgment were rejected.
C3_Witness ==
    /\ Len(calls) = 3 /\ handled
    /\ calls[1].op = "respond" /\ calls[1].outcome = "resolved" /\ Acked = {1}
    /\ \A k \in 2..3 : calls[k].ackedAtCall = {1} /\ AlreadyHandled(calls[k])

\* C4 as stated: when the send of an operation's command has failed, handled
\* is false at the step in which the operation completes.
C4_PendingAtCompletion ==
    [][ \A k \in 1..Len(calls) :
          (Completes(k) /\ calls[k].command \in Failed) => ~handled' ]_vars

\* C4 amended: when the send of an operation's command has failed, the catch
\* callback sets handled false while the operation is still suspended, and
\* when the operation completes handled is false unless a later invocation
\* has passed the guard in between.
C4_FailedSendRestoresPending ==
    [][ /\ \A i \in 1..Len(sent) :
              CatchStep(i) => (~handled' /\ calls[sent[i].call].outcome = "awaiting")
        /\ \A k \in 1..Len(calls) :
              (Completes(k) /\ calls[k].command \in Failed) =>
                  /\ calls[k].command \notin Uncaught
                  /\ handled' => \E j \in (k + 1)..Len(calls) : PassedGuard(calls[j]) ]_vars

\* C4 witness: a continue, an abort and a respond command have each failed,
\* the three operations have completed and handled is false.
C4_Witness ==
    /\ Failed = {1, 2, 3} /\ ~handled
    /\ \A k \in 1..3 : calls[k].command = k /\ calls[k].outcome = "rejected"
    /\ {sent[i].method : i \in 1..3} =
         {"Fetch.continueRequest", "Fetch.failRequest", "Fetch.fulfillRequest"}

\* C5: at most one command is in flight, and an invocation made while a
\* command is in flight is rejected with the already-handled error and sends
\* nothing.
C5_OneInFlight ==
    /\ Cardinality(InFlight) <= 1
    /\ \A k \in 1..Len(calls) :
          calls[k].inFlightAtCall # {} =>
              (AlreadyHandled(calls[k]) /\ ~Accepted(calls[k]))

\* C5 witness: two invocations of different operations back-to-back: the
\* first was accepted, the second found the first's command in flight and was
\* rejected, and only the first's command was sent.
C5_Witness ==
    /\ Len(calls) = 2 /\ Len(sent) = 1
    /\ Accepted(calls[1]) /\ ~calls[1].handledAtCall
    /\ calls[2].inFlightAtCall = {calls[1].command}
    /\ calls[2].op # calls[1].op
    /\ AlreadyHandled(calls[2])

\* C6: an invocation the guard rejects completes with the already-handled
\* error, and an invocation whose send failed never completes normally: when
\* it completes, it completes with that send's error.
C6_ErrorsSurface ==
    /\ \A k \in 1..Len(calls) : calls[k].handledAtCall => AlreadyHandled(calls[k])
    /\ \A i \in Failed :
          LET c == calls[sent[i].call]
          IN  /\ c.outcome # "resolved"
              /\ c.outcome = "rejected" => c.error = sent[i].error

\* C6 witness: one invocation completed with the error of its failed send
\* and another with the already-handled error.
C6_Witness ==
    /\ \E i \in Failed : SendErrorSurfaced(calls[sent[i].call])
    /\ \E k \in 1..Len(calls) : calls[k].handledAtCall /\ AlreadyHandled(calls[k])

\* C7 as stated, for an invocation made once the catch callback of the
\* failed send has run and while no respond is building its command: an
\* invocation made when the send of the last command has failed passes the
\* guard, sets handled and sends its command (a respond whose conversions
\* run code of the caller's, once that code has returned).
C7_RetryAfterFailedSend ==
    [][ (CallStep /\ sent # <<>> /\ Len(sent) \in Failed \ Uncaught /\ ~Building) =>
            /\ PassedGuard(NewCall)
            /\ handled'
            /\ \/ /\ Accepted(NewCall) /\ NewCall.outcome = "awaiting"
                  /\ Len(sent') = Len(sent) + 1
                  /\ sent'[Len(sent')].call = Len(calls')
               \/ NewCall.outcome = "building" ]_vars

\* C8 as stated: after an invocation has failed with the already-handled
\* error, no later invocation is accepted.
C8_NeverAcceptedAfterRejection ==
    \A k \in 1..Len(calls) : \A j \in 1..Len(calls) :
        (k < j /\ AlreadyHandled(calls[k])) => AlreadyHandled(calls[j])

\* C8 amended: after an invocation has failed with the already-handled
\* error, a later invocation passes the guard only once the invocation that
\* had set the flag has sent a command, the send of that command has failed
\* and its catch callback has run; until then, and for ever once that
\* command is acknowledged, later invocations fail with the already-handled
\* error.
C8_AcceptedOnlyAfterBlockerFailed ==
    \A k \in 1..Len(calls) : \A j \in 1..Len(calls) :
        (k < j /\ AlreadyHandled(calls[k])) =>
            /\ Holder(k) # 0
            /\ \/ AlreadyHandled(calls[j])
               \/ calls[Holder(k)].command \in Failed \ Uncaught
            /\ CommandStatus(Holder(k)) \in {"pending", "acked"} =>
                  AlreadyHandled(calls[j])

\* C8 witness: an invocation was rejected while a command was in flight, that
\* command then failed, and a later invocation was accepted.
C8_Witness ==
    /\ Len(calls) = 3
    /\ Accepted(calls[1]) /\ AlreadyHandled(calls[2])
    /\ calls[2].inFlightAtCall = {1} /\ 1 \in Failed
    /\ Accepted(calls[3])

\* C9: handled starts false; it goes from false to true only in a step in
\* which an invocation passes the guard, and from true to false only in the
\* catch callback of the failed send of the command that set it (the last
\* command sent); an acknowledgment, a rejected invocation and an accessor
\* leave it unchanged.
C9_HandledTransitions ==
    /\ handled = FALSE
    /\ [][ /\ (~handled /\ handled') => (CallStep /\ PassedGuard(NewCall))
           /\ (CallStep /\ PassedGuard(NewCall)) => (~handled /\ handled')
           /\ (handled /\ ~handled') =>
                 (sent # <<>> /\ Len(sent) \in Failed /\ CatchStep(Len(sent)))
           /\ (Acked' # Acked) => handled' = handled
           /\ (CallStep /\ AlreadyHandled(NewCall)) => handled' = handled
           /\ AccessorStep => handled' = handled ]_vars

\* C9 witness: handled went false, true, false, true: the first command
\* failed and the second is in flight, and the handled accessor read true.
C9_Witness ==
    /\ Len(sent) = 2 /\ 1 \in Failed /\ 2 \in InFlight /\ handled
    /\ returned.accessor = "handled" /\ returned.value = TRUE

\* C10: the wrapped notification and the session reference never change, an
\* accessor changes nothing of the object, and every command sent is keyed
\* by the requestId of the notification and goes to the session.
C10_OnlyHandledChanges ==
    [][ /\ event' = event
        /\ client' = client
        /\ AccessorStep => UNCHANGED <<handled, sent, calls>>
        /\ \A i \in 1..Len(sent') :
              /\ sent'[i].params.requestId = event.requestId
              /\ sent'[i].session = client ]_vars

\* C10 witness: a continue, an abort and a respond command were sent, two
\* sends failed and one succeeded, the requestId accessor was read: all
\* commands carry the notification's requestId.
C10_Witness ==
    /\ Len(sent) = 3 /\ Failed = {1, 2} /\ Acked = {3}
    /\ {sent[i].method : i \in 1..3} =
         {"Fetch.continueRequest", "Fetch.failRequest", "Fetch.fulfillRequest"}
    /\ \A i \in 1..3 : sent[i].params.requestId = event.requestId
    /\ returned.accessor = "requestId" /\ returned.value = event.requestId

\* C11: under a session that eventually settles every send, every accepted
\* invocation leaves the in-flight state: from a state where its command is
\* in flight, or has failed without the catch callback having run, a state
\* is reached where nothing is in flight and the command is acknowledged
\* with handled true, or has failed (a torn-down channel included) with
\* handled false; and the invocation completes.
C11_LeavesInFlight ==
    \A k \in 1..MaxCalls :
        /\ (Len(calls) >= k /\ calls[k].command \in InFlight \cup Uncaught)
           ~> /\ InFlight = {}
              /\ \/ handled /\ CommandStatus(k) = "acked"
                 \/ ~handled /\ CommandStatus(k) = "failed"
        /\ (Len(calls) >= k /\ calls[k].outcome = "awaiting")
           ~> (Len(calls) >= k /\ calls[k].outcome # "awaiting")

\* C11 witness: a command failed on a torn-down channel, the retry was
\* acknowledged, and nothing is in flight.
C11_Witness ==
    /\ Len(sent) = 2 /\ Failed = {1} /\ Acked = {2} /\ InFlight = {} /\ handled
    /\ calls[sent[1].call].error = "TargetCloseError"
    /\ calls[sent[2].call].outcome = "resolved"

----------------------------------------------------------------------------
(* Vocabulary of the properties about the commands' contents *)

\* the pairs of a flattened header list that carry name, in order
PairsNamed(list, name) == SelectSeq(list, LAMBDA p : p.name = name)

\* the pairs the caller's header record h asks for under lower-case name n:
\* the stringified values of the last entry whose name lower-cases to n
ExpectedPairs(h, n) ==
    LET last == CHOOSE j \in 1..Len(h) :
                    /\ toLowerCase(h[j].name) = n
                    /\ \A k \in (j + 1)..Len(h) : toLowerCase(h[k].name) # n
    IN  [i \in 1..Len(h[last].items) |->
            [name |-> n, value |-> String(h[last].items[i])]]

\* the caller's header record of response r has an entry named n in some
\* letter case
CallerHasHeader(r, n) ==
    IsSome(r.headers)
    /\ \E i \in 1..Len(r.headers[1]) : toLowerCase(r.headers[1][i].name) = n

\* respond derives a body from response r: a non-empty text or a byte array
BodyDerived(r) ==
    IsSome(r.body) /\ (r.body[1].kind = "binary" \/ r.body[1].data # <<>>)

\* the byte length of a body
ByteLength(b) == IF b.kind = "text" THEN Len(Utf8(b.data)) ELSE Len(b.data)

\* the invocation under study has sent its command
InputSent == Len(sent) = 1 /\ calls[1].command = 1

\* the invocation under study hands its command to the session in this step
InputSends == sent = <<>> /\ Len(sent') = 1

\* the response as respond finds it in that step, when it reads the
\* contentType and the status: the caller's argument, as the code that a
\* conversion ran has left it
ResponseRead ==
    IF calls = <<>> THEN input.arg ELSE calls[1].building[1].response

\* C12 as stated: when a body was derived and the caller's header record has
\* no content-length in any letter case, the outgoing list has content-length
\* equal to the byte length, for every byte length; a content-length the
\* caller supplied is not overwritten.
C12_ContentLengthInjected ==
    InputSent =>
        LET r == input.arg
            out == sent[1].params.responseHeaders
        IN  /\ (BodyDerived(r) /\ ~CallerHasHeader(r, ContentLength)) =>
                  PairsNamed(out, ContentLength) =
                      << [name |-> ContentLength,
                          value |-> Decimal(ByteLength(r.body[1]))] >>
            /\ CallerHasHeader(r, ContentLength) =>
                  PairsNamed(out, ContentLength) =
                      ExpectedPairs(r.headers[1], ContentLength)

\* C14 as stated: responseCode is the supplied status, or 200 when none is
\* supplied; responsePhrase is the table's entry (404 gives 'Not Found') and
\* absent for a code the table lacks, and no respond fails over its status:
\* one that ends without sending ends with the error of a conversion.
C14_StatusAndPhrase ==
    /\ (calls # <<>> /\ calls[1].outcome = "rejected") => ConversionThrew(calls[1])
    /\ InputSent =>
        LET r == input.arg
            out == sent[1].params
        IN  /\ out.responseCode = IF IsSome(r.status) THEN r.status[1] ELSE 200
            /\ (out.responseCode = 200) => out.responsePhrase = Some("OK")
            /\ (out.responseCode = 404) => out.responsePhrase = Some("Not Found")
            /\ (out.responseCode = 999) => out.responsePhrase = None

\* C14 amended: responseCode is the status the response holds when respond
\* reads it, which is after the header values have been converted (code of
\* the caller's that a conversion ran may have assigned it), when that
\* status is not 0, and 200 when the response then holds no status or the
\* status 0; responsePhrase is the table's entry (404 gives 'Not Found') and
\* absent for a code the table lacks, and no respond fails over its status:
\* one that ends without sending ends with the error of a conversion.
C14_StatusAsReadAndPhrase ==
    [][ /\ (calls' # <<>> /\ calls'[1].outcome = "rejected") =>
              ConversionThrew(calls'[1])
        /\ InputSends =>
              LET r == ResponseRead
                  out == sent'[1].params
              IN  /\ out.responseCode =
                        IF IsSome(r.status) /\ r.status[1] # 0 THEN r.status[1]
                        ELSE 200
                  /\ (out.responseCode = 200) => out.responsePhrase = Some("OK")
                  /\ (out.responseCode = 404) =>
                        out.responsePhrase = Some("Not Found")
                  /\ (out.responseCode = 999) => out.responsePhrase = None ]_vars

\* C14 witness: respond with the status 999 and a header whose toString the
\* caller wrote has sent its command, with responseCode 500, the status
\* that code assigned, and the phrase of 500.
C14_Witness ==
    /\ InputSent
    /\ input.arg.status = Some(999)
    /\ IsSome(input.arg.headers)
    /\ \E i \in 1..Len(input.arg.headers[1]) :
          input.arg.headers[1][i].items = <<Custom(<<97>>)>>
    /\ sent[1].params.responseCode = 500
    /\ sent[1].params.responsePhrase = Some("Internal Server Error")

\* C15 as stated: every outgoing header name is lower-case, and the pairs
\* under a name are the stringified values, in order, of the last entry of
\* the caller's record whose name lower-cases to it (content-type aside when
\* a contentType is written over it).
C15_CaseCollapse ==
    (InputSent /\ IsSome(input.arg.headers)) =>
        LET r == input.arg
            h == r.headers[1]
            out == sent[1].params.responseHeaders
        IN  /\ \A i \in 1..Len(out) : out[i].name = toLowerCase(out[i].name)
            /\ \A i \in 1..Len(h) :
                  LET n == toLowerCase(h[i].name)
                  IN  \/ n = ContentType /\ IsSome(r.contentType) /\ r.contentType[1] # <<>>
                      \/ PairsNamed(out, n) = ExpectedPairs(h, n)

\* C16 as stated: whenever a contentType is supplied, the outgoing list has
\* exactly one content-type pair and it carries that value.
C16_ContentTypeWins ==
    (InputSent /\ IsSome(input.arg.contentType)) =>
        PairsNamed(sent[1].params.responseHeaders, ContentType) =
            << [name |-> ContentType, value |-> input.arg.contentType[1]] >>

\* C16 amended: whenever the response holds a non-empty contentType when
\* respond reads it, which is after the header values have been converted
\* (code of the caller's that a conversion ran may have removed it), the
\* outgoing list has exactly one content-type pair and it carries that
\* value, whatever content-type entry the caller's record held.
C16_ContentTypeAsReadWins ==
    [][ (InputSends /\ TruthyChars(ResponseRead.contentType)) =>
            LET out == sent'[1].params.responseHeaders
            IN  /\ PairsNamed(out, ContentType) =
                      << [name |-> ContentType,
                          value |-> ResponseRead.contentType[1]] >>
                /\ \A i \in 1..Len(out) :
                      toLowerCase(out[i].name) = ContentType =>
                          out[i].name = ContentType ]_vars

\* C16 witness: contentType 't' was supplied with a record holding a
\* Content-Type whose value is an object with a toString the caller wrote;
\* the command carries the one pair content-type: t.
C16_Witness ==
    /\ InputSent
    /\ input.arg.contentType = Some(<<116>>)
    /\ IsSome(input.arg.headers)
    /\ \E i \in 1..Len(input.arg.headers[1]) :
          /\ toLowerCase(input.arg.headers[1][i].name) = ContentType
          /\ input.arg.headers[1][i].items = <<Custom(<<97>>)>>
    /\ PairsNamed(sent[1].params.responseHeaders, ContentType) =
          << [name |-> ContentType, value |-> <<116>>] >>

\* the bytes a base64 text (digits 0..63, padding 64) stands for
RECURSIVE FromBase64(_)
FromBase64(digits) ==
    IF Len(digits) < 4 THEN <<>>
    ELSE LET d == SubSeq(digits, 1, 4)
             b1 == d[1] * 4 + (d[2] \div 16)
             b2 == (d[2] % 16) * 16 + (d[3] \div 4)
             b3 == (d[3] % 4) * 64 + d[4]
         IN  (IF d[3] = 64 THEN <<b1>>
              ELSE IF d[4] = 64 THEN <<b1, b2>>
              ELSE <<b1, b2, b3>>)
             \o FromBase64(SubSeq(digits, 5, Len(digits)))

\* a text is well-formed base64: groups of four, digits in range
IsBase64(digits) ==
    /\ Len(digits) % 4 = 0
    /\ \A i \in 1..Len(digits) : digits[i] \in 0..64

\* the parts of C13 the code and the claim agree on: an encoded body is
\* non-empty base64 that decodes to the UTF-8 bytes of the override, headers
\* are present exactly when overridden, and url and method are passed as given
ContinueFieldsAgree(o, out) ==
    /\ IsSome(out.postData) =>
          /\ IsSome(o.postData)
          /\ out.postData[1] # <<>>
          /\ IsBase64(out.postData[1])
          /\ FromBase64(out.postData[1]) = Utf8(o.postData[1])
    /\ IsSome(out.headers) <=> IsSome(o.headers)
    /\ (o.url = None /\ o.method = None /\ o.postData = None /\ o.headers = None) =>
          (out.url = None /\ out.method = None /\ out.postData = None
           /\ out.headers = None)

\* C13 as stated: postData is present exactly when a body override is
\* supplied, and is then its non-empty encoded form; headers is present
\* exactly when overridden; with no override all four fields are absent.
C13_BodyPresentWhenSupplied ==
    InputSent =>
        /\ IsSome(sent[1].params.postData) <=> IsSome(input.arg.postData)
        /\ ContinueFieldsAgree(input.arg, sent[1].params)

\* C13 amended: postData is present exactly when a non-empty body override
\* is supplied (an empty string counts as omitted), and is then its non-empty
\* encoded form; headers is present exactly when overridden; with no
\* override all four fields are absent.
C13_BodyPresentWhenNonEmpty ==
    InputSent =>
        /\ IsSome(sent[1].params.postData) <=>
              (IsSome(input.arg.postData) /\ input.arg.postData[1] # <<>>)
        /\ ContinueFieldsAgree(input.arg, sent[1].params)

\* C13 witness: continue with the body 'aé' and no other override has sent
\* postData, the base64 of the three bytes 61 C3 A9, and no headers.
C13_Witness ==
    /\ InputSent
    /\ input.arg = [url |-> None, method |-> None, postData |-> Some(<<97, 233>>),
                    headers |-> None]
    /\ sent[1].params.postData = Some(<<24, 28, 14, 41>>)
    /\ sent[1].params.headers = None

\* C17: errorReason is 'Failed' when no reason is supplied and the caller's
\* reason otherwise.
C17_DefaultReason ==
    InputSent =>
        /\ sent[1].method = "Fetch.failRequest"
        /\ sent[1].params.errorReason =
              IF input.arg = None THEN "Failed" ELSE input.arg[1]

\* C17 witness: abort() without a reason has sent errorReason 'Failed'.
C17_Witness ==
    /\ InputSent
    /\ input.arg = None
    /\ sent[1].params.errorReason = "Failed"

\* C18 as stated: handled is true exactly when a command of this
\* PausedRequest is in flight or acknowledged, and handled is never true
\* without a command having been handed to the session, also while respond
\* is building its body and headers.
C18_HandledIffInFlightOrAcked ==
    /\ handled <=> (InFlight \cup Acked # {})
    /\ handled => sent # <<>>

\* C19: an invocation rejected with the already-handled error leaves handled
\* true and the commands sent as they were; handled then falls only in the
\* catch callback of a command whose send failed, which always sets it
\* false, and the acknowledgment of the command in flight leaves it true.
C19_RejectionLeavesFlightAlone ==
    [][ /\ (CallStep /\ AlreadyHandled(NewCall)) =>
              (handled /\ handled' /\ sent' = sent)
        /\ (handled /\ ~handled') => \E i \in Failed : CatchStep(i)
        /\ \A i \in 1..Len(sent) :
              /\ CatchStep(i) => ~handled'
              /\ (i \in InFlight /\ i \in Acked') => handled'
      ]_vars

\* C19 witness: an abort was rejected while a continue command was in
\* flight; that command then failed and handled is false.
C19_Witness ==
    /\ Len(calls) = 2 /\ Len(sent) = 1
    /\ calls[1].op = "continue" /\ calls[2].op = "abort"
    /\ AlreadyHandled(calls[2]) /\ calls[2].inFlightAtCall = {1}
    /\ Failed = {1} /\ ~handled

\* C20: at most one command is ever acknowledged, and it is the last command
\* sent: none follows it.
C20_OneAcknowledgment ==
    /\ Cardinality(Acked) <= 1
    /\ \A i \in Acked : i = Len(sent)

\* C20 witness: the first command failed, the retry was acknowledged, and an
\* invocation made after the acknowledgment sent nothing.
C20_Witness ==
    /\ Len(calls) = 3 /\ Len(sent) = 2
    /\ Failed = {1} /\ Acked = {2}
    /\ calls[3].ackedAtCall = {2} /\ ~Accepted(calls[3])

====
